---- MODULE Spec2Model ----
(***************************************************************************)
(* ReachPilot outreach pipeline (reachpilot.mjs): the state file           *)
(* outreach-state.json, the run modes igsearch / send / followup, the      *)
(* 3-level tab hierarchy of searchInstagramForCreators, profile screening  *)
(* and message dispatch.  A run is one process; Interrupt kills it at any  *)
(* point, and only the files survive into the next run.                    *)
(***************************************************************************)
EXTENDS Integers, Sequences, FiniteSets, TLC

(* ---------------------------- bounds ----------------------------------- *)
MaxDay == 3            \* the clock runs over days 0..MaxDay
MaxQueries == 1        \* keywords of one igsearch run
MaxSugg == 2           \* suggestion links the search dropdown shows
MaxReels == 2          \* post links a suggestion page shows
MaxCreators == 2       \* videos the discovery API returns
MaxText == 2           \* characters of a message part that is not plain
MaxAnchors == 2        \* account-like anchors of a post page
MaxShown == 6          \* suggestion links of a long dropdown
MaxSuggShort == 1      \* suggestions of a short dropdown
MaxLinks == 25         \* post links of a long suggestion page

(* ------------------------ program constants ---------------------------- *)
NumParts == 4          \* [firstLine, ...MESSAGES_AFTER_FIRST]
FollowupDays == 3      \* daysSinceSent < 3
SuggCap == 5           \* Math.min(suggestionLinks.length, 5)
ReelCap == 24          \* Math.min(reelLinks.length, 24)

OwnHandle == "me"                      \* CONFIG.instagram.handle
Handles == {"a", "b"}                  \* other accounts
AllHandles == Handles \cup {OwnHandle}
NoHandle == "null"
Urls == {"u1", "u2"}                   \* post URLs
Null == -1                             \* null timestamp

Min(x, y) == IF x < y THEN x ELSE y

VARIABLES
  file,            \* outreach-state.json: handle -> record
  creators,        \* discovered-creators.json: list of handles
  now,             \* Date.now(), in days
  mode,            \* "idle" | "igsearch" | "send" | "followup"
  pc,              \* position of the running process
  state,           \* the run's in-memory mapping (loadState())
  screeningOn,     \* SCREENING_ENABLED && OPENAI_KEY of this process
  qi,              \* index into the keyword list
  suggestionUrls,  \* searchInstagramForCreators: suggestionUrls
  si,              \* its loop index i
  reelUrls,        \* reelUrls of the open suggestion
  ri,              \* its loop index j
  handle,          \* handle of the candidate in flight
  found,           \* found[] of the current keyword
  provider,        \* what the provider call of screenProfile produced
  screenResult,    \* screenResult.passes: "pass" | "reject" ("none": not set)
  success,         \* result of sendMessages
  parts,           \* message parts submitted by the running sendMessages
  openSugg,        \* open Level-1 tabs
  openPost,        \* open Level-2 tabs
  openProfile,     \* open Level-3 tabs
  ci,              \* runSend / runFollowup: index into creators
  sentAtLoad,      \* history: handles with sent=true when this run loaded
  admitted,        \* history: handles the gate admitted in this run
  delivered,       \* history: handles that received the whole sequence
  followedUp,      \* history: handles that received the follow-up message
  killedAfter,     \* history: the handle whose sent record had just been
                   \* saved when the previous process was killed
  messages,        \* allMessages: [firstLine, ...MESSAGES_AFTER_FIRST]
  browser,         \* chromium.launch() done and browser.close() not yet
  keys,            \* key events of the running sendMessages, in order
  captured,        \* the page debugCapture was last called on for the
                   \* candidate in flight: "none" | "post" | "profile"
  openedUrls,      \* history: post URLs opened for the current keyword
  torn,            \* outreach-state.json holds part of a write only
  sessionLost,     \* Instagram has ended the session the run logged in with
  other,           \* a second process on the same state file: whether it
                   \* runs, and its in-memory mapping
  result,          \* runFollowup: what the last checkReply returned:
                   \* "replied" | "no_reply" | "error" ("none": not called)
  strategy         \* history: the return that produced handle: "label" |
                   \* "link" | "meta" | "url" ("none": not traced)

vars == <<file, creators, now, mode, pc, state, screeningOn, qi,
          suggestionUrls, si, reelUrls, ri, handle, found, success, parts,
          openSugg, openPost, openProfile, ci, sentAtLoad, admitted,
          delivered, followedUp, provider, screenResult, killedAfter,
          messages, browser, keys, captured, openedUrls, torn, strategy,
          sessionLost, other, result>>

persistentVars == <<file, creators>>
searchVars == <<qi, suggestionUrls, si, reelUrls, ri, found>>
screenVars == <<provider, screenResult>>
tabVars == <<openSugg, openPost, openProfile>>
runHistVars == <<sentAtLoad, admitted>>
sentHistVars == <<delivered, followedUp>>
configVars == <<messages>>
diskVars == <<torn, sessionLost, other>>
sweepVars == <<result>>

(* ----------------------------- records --------------------------------- *)
\* variant: sentAt is set whatever sendMessages returned
SentRecordStamped(ok, t) ==
  [sent |-> ok, sentAt |-> t, skipped |-> ~ok,
   skippedReason |-> "none", replied |-> FALSE, followedUp |-> FALSE,
   followedUpAt |-> Null]

\* state[handle] = { sent, sentAt, skipped, skippedReason, replied, followedUp }
SentRecord(ok, t) ==
  [sent |-> ok, sentAt |-> IF ok THEN t ELSE Null, skipped |-> ~ok,
   skippedReason |-> "none", replied |-> FALSE, followedUp |-> FALSE,
   followedUpAt |-> Null]

ScreenedRecord ==
  [sent |-> FALSE, sentAt |-> Null, skipped |-> TRUE,
   skippedReason |-> "screening", replied |-> FALSE, followedUp |-> FALSE,
   followedUpAt |-> Null]

\* variant: the mapping is replaced by one that holds the new record only
PutAlone(s, h, rec) == [x \in {h} |-> rec]

\* state[h] = rec
Put(s, h, rec) == [x \in (DOMAIN s) \cup {h} |-> IF x = h THEN rec ELSE s[x]]

Has(s, h) == h \in DOMAIN s
IsSent(s, h) == Has(s, h) /\ s[h].sent
IsScreened(s, h) == Has(s, h) /\ s[h].skippedReason = "screening"
IsFailed(s, h) == Has(s, h) /\ ~s[h].sent /\ s[h].skippedReason # "screening"

EmptyMap == [x \in {} |-> ScreenedRecord]

\* no second process
NoOther == [on |-> FALSE, state |-> EmptyMap]

\* handle.toLowerCase(); "Me" is the own handle as a page may spell it
ToLower(h) == IF h = "Me" THEN "me" ELSE h

Range(q) == {q[k] : k \in 1..Len(q)}

\* all sequences of length at most n over the set S
RECURSIVE SeqsUpTo(_, _)
SeqsUpTo(S, n) ==
  IF n = 0 THEN {<<>>}
  ELSE LET shorter == SeqsUpTo(S, n - 1)
       IN shorter \cup {Append(q, x) : q \in shorter, x \in S}

\* the first n elements of q
Take(q, n) == SubSeq(q, 1, Min(Len(q), n))

\* seenUrls / reelUrls: keep the first occurrence of every URL
RECURSIVE Dedup(_)
Dedup(q) ==
  IF q = <<>> THEN <<>>
  ELSE LET front == Dedup(SubSeq(q, 1, Len(q) - 1))
           last == q[Len(q)]
       IN IF last \in Range(front) THEN front ELSE Append(front, last)

(* ------------------------- pure functions ------------------------------ *)
\* suggestionUrls: the first 5 suggestion links, or the synthetic keyword URL
\* (0) when there is none
SuggestionUrls(n) ==
  IF n = 0 THEN <<0>> ELSE [k \in 1..Min(n, SuggCap) |-> k]

\* variant: every link of the suggestion page is taken
CollectReelUrlsUncapped(links) == Dedup(links)

\* reelUrls: the first 24 links of the suggestion page, deduplicated
CollectReelUrls(links) == Dedup(Take(links, ReelCap))

\* n links to different posts, numbered in page order
PageLinks(n) == [k \in 1..n |-> k]

\* characters of a message text: a plain character and the line break
Chars == {"x", "\n"}

\* non-empty texts of at most n characters
TextsUpTo(n) == SeqsUpTo(Chars, n) \ {<<>>}

\* a part without line breaks
PlainText == <<"x">>

\* allMessages with every part plain
PlainMessages == [i \in 1..NumParts |-> PlainText]

\* allMessages where at most one part is not plain
MessageLists ==
  {[i \in 1..NumParts |-> IF i = p THEN t ELSE PlainText] :
     p \in 1..NumParts, t \in TextsUpTo(MaxText)}

\* variant: typing that sends the line break as the Enter key
HumanTypeRaw(text) ==
  [k \in 1..Len(text) |-> IF text[k] = "\n" THEN "Enter" ELSE text[k]]

\* humanType: one key event per character, a line break as Shift+Enter
HumanType(text) ==
  [k \in 1..Len(text) |-> IF text[k] = "\n" THEN "Shift+Enter" ELSE text[k]]

\* variant: the gate without the already-sent check
GateIGNoSentCheck(h, s, fnd) ==
  IF h = NoHandle THEN "no_handle"
  ELSE IF OwnHandle # "" /\ ToLower(h) = ToLower(OwnHandle) THEN "own"
  ELSE IF Has(s, h) /\ s[h].skippedReason = "screening" THEN "screened"
  ELSE IF h \in Range(fnd) THEN "dup"
  ELSE "admit"

\* variant: the gate without the failed-screening check
GateIGNoScreenedCheck(h, s, fnd) ==
  IF h = NoHandle THEN "no_handle"
  ELSE IF OwnHandle # "" /\ ToLower(h) = ToLower(OwnHandle) THEN "own"
  ELSE IF Has(s, h) /\ s[h].sent THEN "already_sent"
  ELSE IF h \in Range(fnd) THEN "dup"
  ELSE "admit"

\* variant: the gate that lets no handle with a record through
GateIGNoRetry(h, s, fnd) ==
  IF h = NoHandle THEN "no_handle"
  ELSE IF OwnHandle # "" /\ ToLower(h) = ToLower(OwnHandle) THEN "own"
  ELSE IF Has(s, h) THEN "already_sent"
  ELSE IF h \in Range(fnd) THEN "dup"
  ELSE "admit"

\* the checks between extraction and the profile tab
GateIG(h, s, fnd) ==
  IF h = NoHandle THEN "no_handle"
  ELSE IF OwnHandle # "" /\ ToLower(h) = ToLower(OwnHandle) THEN "own"
  ELSE IF Has(s, h) /\ s[h].sent THEN "already_sent"
  ELSE IF Has(s, h) /\ s[h].skippedReason = "screening" THEN "screened"
  ELSE IF h \in Range(fnd) THEN "dup"
  ELSE "admit"

\* what the provider call produced
ProviderOutcomes ==
  {"match_yes", "match_no", "network_error", "http_error_json",
   "http_error_text", "no_answer_text", "screenshot_fails"}

\* data.choices?.[0]?.message?.content?.trim() || ""
Answer(outcome) ==
  CASE outcome = "match_yes" -> "MATCH: YES"
    [] outcome = "match_no" -> "MATCH: NO"
    [] OTHER -> ""

\* variant: screenProfile without the switch
ScreenProfileNoSwitch(on, outcome) ==
  IF outcome = "screenshot_fails" THEN "throw"
  ELSE IF outcome \in {"network_error", "http_error_text"} THEN "pass"
  ELSE IF Answer(outcome) = "MATCH: YES" THEN "pass" ELSE "reject"

\* screenProfile: "pass", "reject", or "throw" (raised before the try block)
ScreenProfile(on, outcome) ==
  IF ~on THEN "pass"
  ELSE IF outcome = "screenshot_fails" THEN "throw"
  ELSE IF outcome \in {"network_error", "http_error_text"} THEN "pass"
  ELSE IF Answer(outcome) = "MATCH: YES" THEN "pass" ELSE "reject"

\* runIGSearch, the loop over newHandles: the checks before the profile tab
GateNewHandle(h, s) ==
  IF OwnHandle # "" /\ ToLower(h) = ToLower(OwnHandle) THEN "own"
  ELSE IF Has(s, h) /\ s[h].sent THEN "already_sent"
  ELSE IF Has(s, h) /\ s[h].skippedReason = "screening" THEN "screened"
  ELSE "admit"

\* skipPages of Strategy 1
SkipPages ==
  {"explore", "reels", "reel", "accounts", "direct", "stories", "p", "tv",
   "about", "legal", "privacy", "terms", "tags", "locations"}

\* path segments a post page shows: accounts, the own account in two
\* spellings, and a navigation page
Segments == Handles \cup {OwnHandle, "Me", "explore"}

\* a[href^="/"] elements whose href is one path segment; label: the anchor
\* holds a span whose text is that segment
Anchors == [seg : Segments, label : BOOLEAN]

\* names a title or a URL can show: an account, a navigation page, none
Names == {"a", "explore", NoHandle}

\* a title text: at, the first @name in it; lead, the name it starts with
\* when " on Instagram" follows
Titles == [at : Names, lead : Names]

\* a post page: its anchors in document order, og:title (both fields null
\* when the tag is missing), document.title, and the first path segment of
\* a /<segment>/reel|p/ URL
Pages ==
  [anchors : SeqsUpTo(Anchors, MaxAnchors),
   ogTitle : Titles,
   title : Titles,
   url : Names]

\* pages whose titles and URL name no navigation page
PlainPages ==
  {p \in Pages : /\ {p.ogTitle.at, p.ogTitle.lead} \cap SkipPages = {}
                 /\ {p.title.at, p.title.lead} \cap SkipPages = {}
                 /\ p.url \notin SkipPages}

\* Strategy 1: the first labelled anchor outside skipPages, else the first
\* anchor outside skipPages, else null
AnchorMatch(p) ==
  LET ok == {k \in 1..Len(p.anchors) : p.anchors[k].seg \notin SkipPages}
      labelled == {k \in ok : p.anchors[k].label}
      first(S) == CHOOSE k \in S : \A m \in S : k <= m
  IN IF labelled # {} THEN p.anchors[first(labelled)].seg
     ELSE IF ok # {} THEN p.anchors[first(ok)].seg
     ELSE NoHandle

\* content.match(/@(name)/), then content.match(/^(name)\s+on\s+Instagram/i)
TitleMatch(t) == IF t.at # NoHandle THEN t.at ELSE t.lead

\* Strategy 2: og:title, then document.title
MetaMatch(p) ==
  IF TitleMatch(p.ogTitle) # NoHandle THEN TitleMatch(p.ogTitle)
  ELSE TitleMatch(p.title)

\* Strategy 3: postTab.url() matched against /<name>/reel|p/
UrlMatch(p) == p.url

\* handle after the three strategies, each tried while handle is null
ExtractHandle(p) ==
  IF AnchorMatch(p) # NoHandle THEN AnchorMatch(p)
  ELSE IF MetaMatch(p) # NoHandle THEN MetaMatch(p)
  ELSE UrlMatch(p)

\* what the extraction yields over the pages without navigation titles/URLs
ExtractResults == {ExtractHandle(p) : p \in PlainPages}

\* what the extraction yields over all pages
ExtractResultsAny == {ExtractHandle(p) : p \in Pages}

\* Strategy 1, first loop: the first anchor outside skipPages whose span
\* text is its path segment
LabelMatch(p) ==
  LET labelled == {k \in 1..Len(p.anchors) :
                     /\ p.anchors[k].seg \notin SkipPages
                     /\ p.anchors[k].label}
  IN IF labelled = {} THEN NoHandle
     ELSE p.anchors[CHOOSE k \in labelled : \A m \in labelled : k <= m].seg

\* Strategy 1, second loop: the first anchor outside skipPages
LinkMatch(p) ==
  LET ok == {k \in 1..Len(p.anchors) : p.anchors[k].seg \notin SkipPages}
  IN IF ok = {} THEN NoHandle
     ELSE p.anchors[CHOOSE k \in ok : \A m \in ok : k <= m].seg

\* the return statement that produces the handle
StrategyOf(p) ==
  IF LabelMatch(p) # NoHandle THEN "label"
  ELSE IF LinkMatch(p) # NoHandle THEN "link"
  ELSE IF MetaMatch(p) # NoHandle THEN "meta"
  ELSE IF UrlMatch(p) # NoHandle THEN "url"
  ELSE "none"

\* what the extraction yields over all pages, with the return that
\* produced it
ExtractTraces ==
  {[handle |-> ExtractHandle(p), by |-> StrategyOf(p)] : p \in Pages}

SentHandles(s) == {h \in DOMAIN s : s[h].sent}

(* ------------------------------ Init ----------------------------------- *)
\* no files yet, no process
InitFiles ==
  /\ file = EmptyMap
  /\ creators = <<>>
  /\ now = 0
  /\ mode = "idle"
  /\ pc = "idle"
  /\ state = EmptyMap
  /\ screeningOn = FALSE
  /\ qi = 0
  /\ suggestionUrls = <<>>
  /\ si = 0
  /\ reelUrls = <<>>
  /\ ri = 0
  /\ handle = NoHandle
  /\ found = <<>>
  /\ success = FALSE
  /\ parts = 0
  /\ openSugg = 0
  /\ openPost = 0
  /\ openProfile = 0
  /\ ci = 0
  /\ sentAtLoad = {}
  /\ admitted = {}
  /\ delivered = {}
  /\ followedUp = {}
  /\ provider = "none"
  /\ screenResult = "none"
  /\ killedAfter = NoHandle
  /\ browser = FALSE
  /\ keys = <<>>
  /\ captured = "none"
  /\ openedUrls = {}
  /\ torn = FALSE
  /\ strategy = "none"
  /\ sessionLost = FALSE
  /\ other = NoOther
  /\ result = "none"

\* config.json with plain message parts
Init ==
  /\ InitFiles
  /\ messages = PlainMessages

\* config.json with any of the message lists
InitAnyMessages ==
  /\ InitFiles
  /\ messages \in MessageLists

\* the process is gone: nothing of the run is left but the files
ProcessGone ==
  /\ mode' = "idle"
  /\ pc' = "idle"
  /\ state' = EmptyMap
  /\ screeningOn' = FALSE
  /\ qi' = 0
  /\ suggestionUrls' = <<>>
  /\ si' = 0
  /\ reelUrls' = <<>>
  /\ ri' = 0
  /\ handle' = NoHandle
  /\ found' = <<>>
  /\ success' = FALSE
  /\ parts' = 0
  /\ openSugg' = 0
  /\ openPost' = 0
  /\ openProfile' = 0
  /\ ci' = 0
  /\ sentAtLoad' = {}
  /\ admitted' = {}
  /\ provider' = "none"
  /\ screenResult' = "none"
  /\ browser' = FALSE
  /\ keys' = <<>>
  /\ captured' = "none"
  /\ strategy' = "none"
  /\ openedUrls' = {}

\* variant: a process that starts from an empty mapping instead of the file
ProcessStartsFresh(m) ==
  /\ pc = "idle"
  /\ mode' = m
  /\ pc' = "login"
  /\ state' = EmptyMap
  /\ sentAtLoad' = SentHandles(file)
  /\ screeningOn' \in BOOLEAN
  /\ browser' = TRUE
  /\ UNCHANGED <<qi, suggestionUrls, si, reelUrls, ri, handle, found, success,
                 parts, openSugg, openPost, openProfile, ci, admitted,
                 screenVars, killedAfter, configVars, diskVars, sweepVars, keys, captured, strategy,
                 openedUrls>>

\* a fresh process: loadState(), browser launched, main page open
ProcessStarts(m) ==
  /\ pc = "idle"
  /\ ~torn                          \* JSON.parse succeeds
  /\ mode' = m
  /\ pc' = "login"
  /\ state' = file
  /\ sentAtLoad' = SentHandles(file)
  /\ screeningOn' \in BOOLEAN
  /\ browser' = TRUE
  /\ UNCHANGED <<qi, suggestionUrls, si, reelUrls, ri, handle, found, success,
                 parts, openSugg, openPost, openProfile, ci, admitted,
                 screenVars, killedAfter, configVars, diskVars, sweepVars, keys, captured, strategy,
                 openedUrls>>

\* variant: the credentials are looked at after the state file is read and
\* the browser launched
CredentialsMissingLate(m) ==
  /\ pc = "idle"
  /\ mode' = m
  /\ pc' = "exit1"
  /\ state' = file
  /\ browser' = TRUE
  /\ UNCHANGED <<screeningOn, searchVars, handle, success, parts, tabVars, ci,
                 runHistVars, screenVars, killedAfter, keys, captured, strategy,
                 openedUrls>>

\* if (!username || !password) process.exit(1), the first statement of
\* runSend, runIGSearch and runFollowup
CredentialsMissing(m) ==
  /\ pc = "idle"
  /\ mode' = m
  /\ pc' = "exit1"
  /\ UNCHANGED <<state, screeningOn, searchVars, handle, success, parts,
                 tabVars, ci, runHistVars, screenVars, killedAfter, browser,
                 keys, captured, strategy, openedUrls>>

\* the process ends with exit status 1
ProcessExit ==
  /\ pc = "exit1"
  /\ ProcessGone
  /\ UNCHANGED <<file, creators, now, sentHistVars, configVars, diskVars, sweepVars, killedAfter>>

\* variant: a save that is put off
SaveStateDropped(s) == UNCHANGED file

\* variant: a save that keeps the records of the file it does not hold
SaveStateMerged(s) ==
  file' = [h \in DOMAIN file \cup DOMAIN s |->
             IF h \in DOMAIN s THEN s[h] ELSE file[h]]

\* saveState(s)
SaveState(s) == file' = s

(* --------------------------- environment ------------------------------- *)
\* a day passes; a run is short against a day, so the clock moves between runs
Tick ==
  /\ pc = "idle"
  /\ now < MaxDay
  /\ now' = now + 1
  /\ UNCHANGED <<file, creators, mode, pc, state, screeningOn, searchVars,
                 handle, success, parts, tabVars, ci, runHistVars, sentHistVars,
                 screenVars, killedAfter,
                 configVars, diskVars, sweepVars, browser, keys, captured, strategy, openedUrls>>

\* Ctrl+C / kill at any point of a run
Interrupt ==
  /\ pc # "idle"
  /\ ProcessGone
  /\ killedAfter' = IF pc = "closeProfile" /\ success THEN handle ELSE NoHandle
  /\ UNCHANGED <<file, creators, now, sentHistVars, configVars, diskVars, sweepVars>>

(* ------------------------ runIGSearch: frame --------------------------- *)
StartIGSearch ==
  /\ \/ CredentialsMissing("igsearch")
     \/ ProcessStarts("igsearch")
  /\ UNCHANGED <<file, creators, now, sentHistVars, configVars, diskVars, sweepVars>>

\* variant: a top-level catch that writes a fresh mapping
TopLevelCatchFresh ==
  /\ SaveState(EmptyMap)
  /\ pc' = "closing"

\* the catch of runSend / runIGSearch / runFollowup: saveState(state)
TopLevelCatch ==
  /\ SaveState(state)
  /\ pc' = "closing"

\* session check and login(); a failed login throws into the top-level catch
Login ==
  /\ pc = "login"
  /\ \E ok \in BOOLEAN :
       IF ok
         THEN /\ pc' = (IF mode = "igsearch" THEN "queries" ELSE "creators")
              /\ qi' = 1
              /\ ci' = 1
              /\ UNCHANGED file
         ELSE /\ TopLevelCatch
              /\ UNCHANGED <<qi, ci>>
  /\ UNCHANGED <<creators, now, mode, state, screeningOn, suggestionUrls, si,
                 reelUrls, ri, handle, found, success, parts, tabVars,
                 runHistVars, sentHistVars, screenVars, killedAfter,
                 configVars, diskVars, sweepVars, browser, keys, captured, strategy, openedUrls>>

\* variant: browser.close() never returns
CloseBrowserHangs ==
  /\ pc = "closing"
  /\ pc' = "hung"
  /\ UNCHANGED <<file, creators, now, mode, state, screeningOn, searchVars,
                 handle, success, parts, tabVars, ci, runHistVars,
                 sentHistVars, screenVars, killedAfter, configVars, diskVars,
                 sweepVars, browser, keys, captured, strategy, openedUrls>>

\* finally: browser.close()
CloseBrowser ==
  /\ pc = "closing"
  /\ ProcessGone
  /\ killedAfter' = NoHandle
  /\ UNCHANGED <<file, creators, now, sentHistVars, configVars, diskVars, sweepVars>>

(* -------------------- searchInstagramForCreators ----------------------- *)
\* for (const query of queries): open the search panel, type the query and
\* read the suggestions; at the end of the list, the summary.  shown: the
\* most suggestions the dropdown shows
SearchQueryUpTo(shown) ==
  /\ mode = "igsearch"
  /\ pc = "queries"
  /\ \/ /\ qi > MaxQueries
        /\ pc' = "closing"
        /\ UNCHANGED <<file, suggestionUrls, si, found>>
     \/ /\ qi <= MaxQueries          \* search icon or input not found
        /\ found' = <<>>
        /\ pc' = "newHandles"
        /\ UNCHANGED <<file, suggestionUrls, si>>
     \/ /\ qi <= MaxQueries
        /\ \E n \in 0..shown :
             suggestionUrls' = SuggestionUrls(n)
        /\ si' = 1
        /\ found' = <<>>
        /\ pc' = "sugg"
        /\ UNCHANGED file
     \/ /\ qi <= MaxQueries          \* browseFeed throws: session lost
        /\ TopLevelCatch
        /\ UNCHANGED <<suggestionUrls, si, found>>
  /\ UNCHANGED <<creators, now, mode, state, screeningOn, qi, reelUrls, ri,
                 handle, success, parts, tabVars, ci, runHistVars,
                 sentHistVars, screenVars, killedAfter,
                 configVars, diskVars, sweepVars, browser, keys, captured, strategy, openedUrls>>

\* the dropdown shows up to MaxSugg suggestions
SearchQuery == SearchQueryUpTo(MaxSugg)

\* the dropdown shows more suggestions than are taken
SearchQueryLong == SearchQueryUpTo(MaxShown)

\* for (i ...): open the suggestion in a new tab and collect its post links
\* lists: the link lists a suggestion page can show
OpenSuggestionOver(lists) ==
  /\ pc = "sugg"
  /\ \/ /\ si > Len(suggestionUrls)  \* return found
        /\ pc' = "newHandles"
        /\ suggestionUrls' = <<>>
        /\ si' = 0
        /\ UNCHANGED <<reelUrls, ri, openSugg>>
     \/ /\ si <= Len(suggestionUrls) \* context.newPage() throws
        /\ pc' = "suggCatch"
        /\ UNCHANGED <<suggestionUrls, si, reelUrls, ri, openSugg>>
     \/ /\ si <= Len(suggestionUrls) \* goto / locator throws, or
        /\ openSugg' = openSugg + 1    \* getAttribute after some links
        /\ \E links \in lists :
             reelUrls' = CollectReelUrls(links)
        /\ pc' = "suggCatch"
        /\ UNCHANGED <<suggestionUrls, si, ri>>
     \/ /\ si <= Len(suggestionUrls)
        /\ openSugg' = openSugg + 1
        /\ \E links \in lists :
             reelUrls' = CollectReelUrls(links)
        /\ ri' = 1
        /\ pc' = "post"
        /\ UNCHANGED <<suggestionUrls, si>>
  /\ UNCHANGED <<file, creators, now, mode, state, screeningOn, qi, handle,
                 found, success, parts, openPost, openProfile, ci, runHistVars,
                 sentHistVars, screenVars, killedAfter,
                 configVars, diskVars, sweepVars, browser, keys, captured, strategy, openedUrls>>

\* a suggestion page shows up to MaxReels links to posts that may repeat
OpenSuggestion == OpenSuggestionOver(SeqsUpTo(Urls, MaxReels))

\* a suggestion page shows up to MaxLinks links to different posts
OpenSuggestionLong == OpenSuggestionOver({PageLinks(n) : n \in 0..MaxLinks})

\* catch of the suggestion loop: if (suggestionTab) close it
SuggestionCatch ==
  /\ pc = "suggCatch"
  /\ openSugg' = IF openSugg > 0 THEN openSugg - 1 ELSE 0
  /\ si' = si + 1
  /\ reelUrls' = <<>>
  /\ ri' = 0
  /\ pc' = "sugg"
  /\ UNCHANGED <<file, creators, now, mode, state, screeningOn, qi,
                 suggestionUrls, handle, found, success, parts, openPost,
                 openProfile, ci, runHistVars, sentHistVars, screenVars, killedAfter,
                 configVars, diskVars, sweepVars, browser, keys, captured, strategy, openedUrls>>

\* variant: a step to the next post that passes over one
NextItemSkipping ==
  /\ ri' = ri + 2
  /\ handle' = NoHandle
  /\ success' = FALSE
  /\ parts' = 0
  /\ provider' = "none"
  /\ screenResult' = "none"
  /\ keys' = <<>>
  /\ captured' = "none"
  /\ strategy' = "none"
  /\ pc' = "post"

\* the next post of the suggestion, or (after the last) suggestionTab.close()
NextItem ==
  /\ ri' = ri + 1
  /\ handle' = NoHandle
  /\ success' = FALSE
  /\ parts' = 0
  /\ provider' = "none"
  /\ screenResult' = "none"
  /\ keys' = <<>>
  /\ captured' = "none"
  /\ strategy' = "none"
  /\ pc' = "post"

\* for (j ...): open the post in another new tab
\* record: whether the history openedUrls is kept
OpenPostRecording(record) ==
  /\ pc = "post"
  /\ \/ /\ ri > Len(reelUrls)        \* suggestionTab.close()
        /\ openSugg' = openSugg - 1
        /\ si' = si + 1
        /\ reelUrls' = <<>>
        /\ ri' = 0
        /\ pc' = "sugg"
        /\ UNCHANGED <<openPost, openedUrls>>
     \/ /\ ri <= Len(reelUrls)       \* context.newPage() throws
        /\ pc' = "postCatch"
        /\ UNCHANGED <<openSugg, si, reelUrls, ri, openPost, openedUrls>>
     \/ /\ ri <= Len(reelUrls)       \* postTab.goto throws
        /\ openPost' = openPost + 1
        /\ openedUrls' = IF record THEN openedUrls \cup {reelUrls[ri]}
                                  ELSE openedUrls
        /\ pc' = "postCatch"
        /\ UNCHANGED <<openSugg, si, reelUrls, ri>>
     \/ /\ ri <= Len(reelUrls)
        /\ openPost' = openPost + 1
        /\ openedUrls' = IF record THEN openedUrls \cup {reelUrls[ri]}
                                  ELSE openedUrls
        /\ pc' = "extract"
        /\ UNCHANGED <<openSugg, si, reelUrls, ri>>
  /\ UNCHANGED <<file, creators, now, mode, state, screeningOn, qi,
                 suggestionUrls, handle, found, success, parts, openProfile,
                 ci, runHistVars, sentHistVars, screenVars, killedAfter,
                 configVars, diskVars, sweepVars, browser, keys, captured, strategy>>

OpenPost == OpenPostRecording(FALSE)

\* the same step with the history of opened post URLs kept
OpenPostRecorded == OpenPostRecording(TRUE)

\* variant: an extraction that skips the post without the capture
ExtractFromNoCapture(results) ==
  /\ pc = "extract"
  /\ \E h \in results :
       /\ handle' = h
       /\ pc' = IF h = NoHandle THEN "skipPost" ELSE "gate"
       /\ captured' = "none"
       /\ strategy' = "none"
  /\ UNCHANGED <<file, creators, now, mode, state, screeningOn, searchVars,
                 success, parts, tabVars, ci, runHistVars, sentHistVars,
                 screenVars, killedAfter, configVars, diskVars, sweepVars, browser, keys,
                 openedUrls>>

\* the three extraction strategies; handle stays null when all fail
ExtractFrom(results) ==
  /\ pc = "extract"
  /\ \E h \in results :
       /\ handle' = h
       /\ pc' = IF h = NoHandle THEN "skipPost" ELSE "gate"
       /\ captured' = IF h = NoHandle THEN "post" ELSE "none"
       /\ strategy' = "none"
  /\ UNCHANGED <<file, creators, now, mode, state, screeningOn, searchVars,
                 success, parts, tabVars, ci, runHistVars, sentHistVars,
                 screenVars, killedAfter, configVars, diskVars, sweepVars, browser, keys,
                 openedUrls>>

\* extraction over post pages whose title and URL name no navigation page
Extract == ExtractFrom(ExtractResults)

\* extraction over all post pages
ExtractAny == ExtractFrom(ExtractResultsAny)

\* extraction over post pages that show no account at all
ExtractNone == ExtractFrom({NoHandle})

\* extraction over all post pages, the producing return kept as history
ExtractTraced ==
  /\ pc = "extract"
  /\ \E r \in ExtractTraces :
       /\ handle' = r.handle
       /\ strategy' = r.by
       /\ pc' = IF r.handle = NoHandle THEN "skipPost" ELSE "gate"
       /\ captured' = IF r.handle = NoHandle THEN "post" ELSE "none"
  /\ UNCHANGED <<file, creators, now, mode, state, screeningOn, searchVars,
                 success, parts, tabVars, ci, runHistVars, sentHistVars,
                 screenVars, killedAfter, configVars, diskVars, sweepVars, browser, keys,
                 openedUrls>>

\* own / state / found checks, in this order
Gate ==
  /\ pc = "gate"
  /\ IF GateIG(handle, state, found) = "admit"
       THEN /\ admitted' = admitted \cup {handle}
            /\ pc' = "openProfile"
       ELSE /\ pc' = "skipPost"
            /\ UNCHANGED admitted
  /\ UNCHANGED <<file, creators, now, mode, state, screeningOn, searchVars,
                 handle, success, parts, tabVars, ci, sentAtLoad, sentHistVars,
                 screenVars, killedAfter,
                 configVars, diskVars, sweepVars, browser, keys, captured, strategy, openedUrls>>

\* no handle (after debugCapture) or a rejected one: postTab.close(); continue
SkipPost ==
  /\ pc = "skipPost"
  /\ openPost' = openPost - 1
  /\ NextItem
  /\ UNCHANGED <<file, creators, now, mode, state, screeningOn, qi,
                 suggestionUrls, si, reelUrls, found, openSugg, openProfile,
                 ci, runHistVars, sentHistVars, killedAfter,
                 configVars, diskVars, sweepVars, browser, openedUrls>>

\* profileTab = await context.newPage(); goto; browseProfile
OpenProfile ==
  /\ pc = "openProfile"
  /\ \/ /\ pc' = "profileCatch"      \* context.newPage() throws
        /\ UNCHANGED openProfile
     \/ /\ openProfile' = openProfile + 1  \* goto / browseProfile throws
        /\ pc' = "profileCatch"
     \/ /\ openProfile' = openProfile + 1
        /\ pc' = "screen"
  /\ UNCHANGED <<file, creators, now, mode, state, screeningOn, searchVars,
                 handle, success, parts, openSugg, openPost, ci, runHistVars,
                 sentHistVars, screenVars, killedAfter,
                 configVars, diskVars, sweepVars, browser, keys, captured, strategy, openedUrls>>

(* ---------------- screening and dispatch of one candidate -------------- *)
\* an exception while the candidate is processed: the catch around the
\* profile tab in searchInstagramForCreators, the top-level catch in runSend
Throw ==
  IF mode = "igsearch"
    THEN /\ pc' = "profileCatch"
         /\ UNCHANGED file
    ELSE TopLevelCatch

\* screenProfile(page, handle)
Screen ==
  /\ pc = "screen"
  /\ \E o \in (IF screeningOn THEN ProviderOutcomes ELSE {"none"}) :
       LET r == ScreenProfile(screeningOn, o) IN
         IF r = "throw"
           THEN /\ Throw
                /\ UNCHANGED screenVars
           ELSE /\ provider' = o
                /\ screenResult' = r
                /\ pc' = "screened"
                /\ UNCHANGED file
  /\ UNCHANGED <<creators, now, mode, state, screeningOn, searchVars, handle,
                 success, parts, tabVars, ci, runHistVars, sentHistVars,
                 killedAfter,
                 configVars, diskVars, sweepVars, browser, keys, captured, strategy, openedUrls>>

\* variant: the screening record is kept in memory and not saved
BranchOnScreenUnsaved ==
  /\ pc = "screened"
  /\ IF screenResult = "pass"
       THEN /\ pc' = "send"
            /\ provider' = "none"
            /\ screenResult' = "none"
            /\ UNCHANGED <<file, state, ci, handle>>
       ELSE /\ state' = Put(state, handle, ScreenedRecord)
            /\ UNCHANGED file
            /\ IF mode = "igsearch"
                 THEN /\ pc' = "rejected"
                      /\ UNCHANGED <<ci, handle, screenVars>>
                 ELSE /\ pc' = "creators"
                      /\ ci' = ci + 1
                      /\ handle' = NoHandle
                      /\ provider' = "none"
                      /\ screenResult' = "none"
  /\ UNCHANGED <<creators, now, mode, screeningOn, searchVars, success, parts,
                 tabVars, runHistVars, sentHistVars, killedAfter,
                 configVars, diskVars, sweepVars, browser, keys, captured, strategy, openedUrls>>

\* if (!screenResult.passes): the screening record, saveState, continue
BranchOnScreen ==
  /\ pc = "screened"
  /\ IF screenResult = "pass"
       THEN /\ pc' = "send"
            /\ provider' = "none"
            /\ screenResult' = "none"
            /\ UNCHANGED <<file, state, ci, handle>>
       ELSE /\ state' = Put(state, handle, ScreenedRecord)
            /\ SaveState(state')
            /\ IF mode = "igsearch"
                 THEN /\ pc' = "rejected"
                      /\ UNCHANGED <<ci, handle, screenVars>>
                 ELSE /\ pc' = "creators"
                      /\ ci' = ci + 1
                      /\ handle' = NoHandle
                      /\ provider' = "none"
                      /\ screenResult' = "none"
  /\ UNCHANGED <<creators, now, mode, screeningOn, searchVars, success, parts,
                 tabVars, runHistVars, sentHistVars, killedAfter,
                 configVars, diskVars, sweepVars, browser, keys, captured, strategy, openedUrls>>

\* after a screening rejection: profileTab.close(), postTab.close(), continue
CloseRejected ==
  /\ pc = "rejected"
  /\ openProfile' = openProfile - 1
  /\ openPost' = openPost - 1
  /\ NextItem
  /\ UNCHANGED <<file, creators, now, mode, state, screeningOn, qi,
                 suggestionUrls, si, reelUrls, found, openSugg, ci, runHistVars,
                 sentHistVars, killedAfter,
                 configVars, diskVars, sweepVars, browser, openedUrls>>

\* variant: sendMessages returns false without the capture
SendEntryNoCapture ==
  /\ pc = "send"
  /\ \/ /\ Throw
        /\ UNCHANGED <<success, parts, keys, captured, strategy>>
     \/ /\ success' = FALSE
        /\ pc' = "record"
        /\ UNCHANGED <<file, parts, keys, captured, strategy>>
     \/ /\ parts' = 0
        /\ keys' = <<>>
        /\ pc' = "typing"
        /\ UNCHANGED <<file, success, captured, strategy>>
  /\ UNCHANGED <<creators, now, mode, state, screeningOn, searchVars, handle,
                 tabVars, ci, runHistVars, sentHistVars, screenVars, killedAfter,
                 configVars, diskVars, sweepVars, browser, openedUrls>>

\* variant: the profile tab is closed before the record is written
SendEntryClosing ==
  /\ pc = "send"
  /\ \/ /\ Throw
        /\ UNCHANGED <<success, parts, keys, captured, strategy, openProfile>>
     \/ /\ success' = FALSE
        /\ captured' = "profile"
        /\ UNCHANGED strategy
        /\ openProfile' = IF mode = "igsearch" THEN 0 ELSE openProfile
        /\ pc' = "record"
        /\ UNCHANGED <<file, parts, keys>>
     \/ /\ parts' = 0
        /\ keys' = <<>>
        /\ pc' = "typing"
        /\ UNCHANGED <<file, success, captured, strategy, openProfile>>
  /\ UNCHANGED <<creators, now, mode, state, screeningOn, searchVars, handle,
                 openSugg, openPost, ci, runHistVars, sentHistVars, screenVars,
                 killedAfter, configVars, diskVars, sweepVars, browser, openedUrls>>

\* sendMessages up to the message input: Message button, then input
SendEntry ==
  /\ pc = "send"
  /\ \/ /\ Throw                     \* page.evaluate throws
        /\ UNCHANGED <<success, parts, keys, captured, strategy>>
     \/ /\ success' = FALSE          \* no Message button: debugCapture,
        /\ captured' = "profile"     \* return false
        /\ UNCHANGED strategy
        /\ pc' = "record"
        /\ UNCHANGED <<file, parts, keys>>
     \/ /\ success' = FALSE          \* no message input: debugCapture,
        /\ captured' = "profile"     \* return false
        /\ UNCHANGED strategy
        /\ pc' = "record"
        /\ UNCHANGED <<file, parts, keys>>
     \/ /\ parts' = 0
        /\ keys' = <<>>
        /\ pc' = "typing"
        /\ UNCHANGED <<file, success, captured, strategy>>
  /\ UNCHANGED <<creators, now, mode, state, screeningOn, searchVars, handle,
                 tabVars, ci, runHistVars, sentHistVars, screenVars, killedAfter,
                 configVars, diskVars, sweepVars, browser, openedUrls>>

\* sendMessages, one pass of the loop: click, humanType, Enter; after the
\* last part the function returns true
TypePart ==
  /\ pc = "typing"
  /\ \/ /\ Throw                     \* click / humanType / press throws
        /\ parts' = 0
        /\ UNCHANGED <<success, delivered, keys>>
     \/ /\ parts' = parts + 1
        /\ keys' = keys \o HumanType(messages[parts + 1]) \o <<"Enter">>
        /\ IF parts' = NumParts
             THEN /\ success' = TRUE
                  /\ pc' = "record"
                  /\ delivered' = delivered \cup {handle}
             ELSE /\ pc' = "typing"
                  /\ UNCHANGED <<success, delivered>>
        /\ UNCHANGED file
  /\ UNCHANGED <<creators, now, mode, state, screeningOn, searchVars, handle,
                 tabVars, ci, runHistVars, followedUp, screenVars,
                 killedAfter, configVars, diskVars, sweepVars, browser, captured, strategy, openedUrls>>

\* variant: the record says failed whatever sendMessages returned
RecordOutcomeFailed(s, h, ok, t) == Put(s, h, SentRecord(FALSE, t))

\* state[handle] = { sent: success, ... }; saveState(state)
RecordOutcome(s, h, ok, t) == Put(s, h, SentRecord(ok, t))

Record ==
  /\ pc = "record"
  /\ state' = RecordOutcome(state, handle, success, now)
  /\ SaveState(state')
  /\ IF mode = "igsearch"
       THEN /\ found' = IF success THEN Append(found, handle) ELSE found
            /\ pc' = "closeProfile"
            /\ UNCHANGED <<ci, handle, success, parts, keys, captured, strategy>>
       ELSE /\ pc' = "creators"
            /\ ci' = ci + 1
            /\ handle' = NoHandle
            /\ success' = FALSE
            /\ parts' = 0
            /\ keys' = <<>>
            /\ captured' = "none"
            /\ strategy' = "none"
            /\ UNCHANGED found
  /\ UNCHANGED <<creators, now, mode, screeningOn, qi, suggestionUrls, si,
                 reelUrls, ri, tabVars, runHistVars, sentHistVars, screenVars,
                 killedAfter, configVars, diskVars, sweepVars, browser, openedUrls>>

\* variant: the post tab is closed where the profile tab should be
CloseProfileWrongTab ==
  /\ pc = "closeProfile"
  /\ openPost' = openPost - 1
  /\ pc' = "closePost"
  /\ UNCHANGED <<file, creators, now, mode, state, screeningOn, searchVars,
                 handle, success, parts, openSugg, openProfile, ci, runHistVars,
                 sentHistVars, screenVars, killedAfter,
                 configVars, diskVars, sweepVars, browser, keys, captured, strategy, openedUrls>>

\* profileTab.close()
CloseProfile ==
  /\ pc = "closeProfile"
  /\ openProfile' = openProfile - 1
  /\ pc' = "closePost"
  /\ UNCHANGED <<file, creators, now, mode, state, screeningOn, searchVars,
                 handle, success, parts, openSugg, openPost, ci, runHistVars,
                 sentHistVars, screenVars, killedAfter,
                 configVars, diskVars, sweepVars, browser, keys, captured, strategy, openedUrls>>

\* postTab.close() at the end of the post's try block
ClosePost ==
  /\ pc = "closePost"
  /\ openPost' = openPost - 1
  /\ NextItem
  /\ UNCHANGED <<file, creators, now, mode, state, screeningOn, qi,
                 suggestionUrls, si, reelUrls, found, openSugg, openProfile,
                 ci, runHistVars, sentHistVars, killedAfter,
                 configVars, diskVars, sweepVars, browser, openedUrls>>

\* variant: the catch that forgets the profile tab
ProfileCatchLeak ==
  /\ pc = "profileCatch"
  /\ pc' = "closePost"
  /\ UNCHANGED <<file, creators, now, mode, state, screeningOn, searchVars,
                 handle, success, parts, tabVars, ci, runHistVars,
                 sentHistVars, screenVars, killedAfter,
                 configVars, diskVars, sweepVars, browser, keys, captured, strategy, openedUrls>>

\* catch around the profile tab: debugCapture, profileTab.close()
ProfileCatch ==
  /\ pc = "profileCatch"
  /\ captured' = IF openProfile > 0 THEN "profile" ELSE captured
  /\ UNCHANGED strategy
  /\ openProfile' = IF openProfile > 0 THEN openProfile - 1 ELSE 0
  /\ pc' = "closePost"
  /\ UNCHANGED <<file, creators, now, mode, state, screeningOn, searchVars,
                 handle, success, parts, openSugg, openPost, ci, runHistVars,
                 sentHistVars, screenVars, killedAfter, configVars, diskVars, sweepVars, browser,
                 keys, openedUrls>>

\* catch around the post: close postTab and profileTab if set
PostCatch ==
  /\ pc = "postCatch"
  /\ openPost' = IF openPost > 0 THEN openPost - 1 ELSE 0
  /\ openProfile' = IF openProfile > 0 THEN openProfile - 1 ELSE 0
  /\ NextItem
  /\ UNCHANGED <<file, creators, now, mode, state, screeningOn, qi,
                 suggestionUrls, si, reelUrls, found, openSugg, ci, runHistVars,
                 sentHistVars, killedAfter,
                 configVars, diskVars, sweepVars, browser, openedUrls>>

\* runIGSearch: for (const handle of newHandles); a handle that passes the
\* checks would be opened, screened and messaged again ("secondDispatch")
ProcessNewHandles ==
  /\ pc = "newHandles"
  /\ LET again == {k \in 1..Len(found) :
                     GateNewHandle(found[k], state) = "admit"} IN
       IF again = {}
         THEN /\ qi' = qi + 1
              /\ found' = <<>>
              /\ openedUrls' = {}
              /\ pc' = "queries"
              /\ UNCHANGED handle
         ELSE /\ handle' = found[CHOOSE k \in again : \A m \in again : k <= m]
              /\ pc' = "secondDispatch"
              /\ UNCHANGED <<qi, found, openedUrls>>
  /\ UNCHANGED <<file, creators, now, mode, state, screeningOn, suggestionUrls,
                 si, reelUrls, ri, success, parts, tabVars, ci, runHistVars,
                 sentHistVars, screenVars, killedAfter,
                 configVars, diskVars, sweepVars, browser, keys, captured, strategy>>

(* ------------------------- discoverCreators ---------------------------- *)
\* creatorMap: one entry per handle, whatever the videos the API returned
CreatorsFrom(videos) == Dedup(videos)

\* variant: a discover run that launches the browser
RunDiscoverLaunching(accounts) ==
  /\ pc = "idle"
  /\ \E videos \in SeqsUpTo(accounts, MaxCreators) :
       creators' = CreatorsFrom(videos)
  /\ browser' = TRUE
  /\ UNCHANGED <<file, now, mode, pc, state, screeningOn, searchVars, handle,
                 success, parts, tabVars, ci, runHistVars, sentHistVars,
                 screenVars, killedAfter, configVars, diskVars, sweepVars, keys,
                 captured, strategy, openedUrls>>

\* runDiscover: discoverCreators() rewrites discovered-creators.json; no
\* browser, no state file.  accounts: the creators of the videos the API
\* can return
RunDiscoverOver(accounts) ==
  /\ pc = "idle"
  /\ \E videos \in SeqsUpTo(accounts, MaxCreators) :
       creators' = CreatorsFrom(videos)
  /\ UNCHANGED <<file, now, mode, pc, state, screeningOn, searchVars, handle,
                 success, parts, tabVars, ci, runHistVars, sentHistVars, screenVars, killedAfter,
                 configVars, diskVars, sweepVars, browser, keys, captured, strategy, openedUrls>>

\* the API returns videos of other accounts only
RunDiscover == RunDiscoverOver(Handles)

\* the API may return the operator's own videos too
RunDiscoverAny == RunDiscoverOver(AllHandles)

(* ------------------------------ runSend -------------------------------- *)
\* credentials; loadCreators(), or discoverCreators() when the cache is
\* empty; loadState()
StartSendOver(accounts) ==
  /\ \/ /\ CredentialsMissing("send")
        /\ UNCHANGED creators
     \/ /\ ProcessStarts("send")
        /\ IF creators = <<>>
             THEN \E videos \in SeqsUpTo(accounts, MaxCreators) :
                    creators' = CreatorsFrom(videos)
             ELSE UNCHANGED creators
  /\ UNCHANGED <<file, now, sentHistVars, configVars, diskVars, sweepVars>>

StartSend == StartSendOver(Handles)

StartSendAny == StartSendOver(AllHandles)

\* the kill lands inside fs.writeFileSync, which truncates the file and then
\* writes the new text: the file is left with a proper prefix of the text
\* (nothing at all included), which JSON.parse rejects.  The kill just
\* before or just after the write is Interrupt
InterruptSave ==
  /\ \/ pc = "record"
     \/ pc = "screened" /\ screenResult # "pass"
  /\ ProcessGone
  /\ torn' = TRUE
  /\ killedAfter' = NoHandle
  /\ UNCHANGED <<file, creators, now, sentHistVars, configVars, sessionLost,
                 other, sweepVars>>

\* runSend on a file that holds part of a write: loadCreators (or
\* discoverCreators), then loadState throws out of JSON.parse before the
\* try block and the process ends on the uncaught exception
LoadStateThrows ==
  /\ pc = "idle"
  /\ torn
  /\ mode' = "send"
  /\ pc' = "crash"
  /\ IF creators = <<>>
       THEN \E videos \in SeqsUpTo(Handles, MaxCreators) :
              creators' = CreatorsFrom(videos)
       ELSE UNCHANGED creators
  /\ UNCHANGED <<file, now, state, screeningOn, searchVars, handle, success,
                 parts, tabVars, ci, runHistVars, sentHistVars, screenVars,
                 killedAfter, configVars, diskVars, sweepVars, browser, keys, captured, strategy,
                 openedUrls>>

\* the process ends on the uncaught exception
ProcessCrash ==
  /\ pc = "crash"
  /\ ProcessGone
  /\ UNCHANGED <<file, creators, now, sentHistVars, configVars, diskVars, sweepVars,
                 killedAfter>>

\* variant: the loop over creators admits every creator
GateSendAll(h, s) == "admit"

\* runSend: the checks at the head of the loop over creators
GateSend(h, s) ==
  IF Has(s, h) /\ s[h].sent THEN "already_sent"
  ELSE IF Has(s, h) /\ s[h].skippedReason = "screening" THEN "screened"
  ELSE "admit"

\* for (ci ...): skip, or browse the feed and open the profile on the main page
NextCreator ==
  /\ mode = "send"
  /\ pc = "creators"
  /\ \/ /\ ci > Len(creators)        \* summary
        /\ pc' = "closing"
        /\ UNCHANGED <<file, ci, handle, admitted>>
     \/ /\ ci <= Len(creators)
        /\ GateSend(creators[ci], state) # "admit"
        /\ ci' = ci + 1
        /\ UNCHANGED <<file, pc, handle, admitted>>
     \/ /\ ci <= Len(creators)
        /\ GateSend(creators[ci], state) = "admit"
        /\ handle' = creators[ci]
        /\ admitted' = admitted \cup {creators[ci]}
        /\ pc' = "screen"
        /\ UNCHANGED <<file, ci>>
     \/ /\ ci <= Len(creators)       \* browseFeed / goto throws
        /\ GateSend(creators[ci], state) = "admit"
        /\ TopLevelCatch
        /\ UNCHANGED <<ci, handle, admitted>>
  /\ UNCHANGED <<creators, now, mode, state, screeningOn, searchVars, success,
                 parts, tabVars, sentAtLoad, sentHistVars, screenVars, killedAfter,
                 configVars, diskVars, sweepVars, browser, keys, captured, strategy, openedUrls>>

(* ---------------------------- runFollowup ------------------------------ *)
\* credentials; loadCreators() must be non-empty; loadState()
StartFollowup ==
  /\ \/ CredentialsMissing("followup")
     \/ /\ creators # <<>>
        /\ ProcessStarts("followup")
  /\ UNCHANGED <<file, creators, now, sentHistVars, configVars, diskVars, sweepVars>>

\* a window one day short
TooEarlyLoose(sentAt, t) == t - sentAt < FollowupDays - 1

\* daysSinceSent < 3
TooEarly(sentAt, t) == t - sentAt < FollowupDays

\* variant: the sweep does not look at sent
FollowupBranchAnyRecord(s, h, replied, error, t) ==
  IF ~Has(s, h) THEN "skip"
  ELSE IF replied THEN "replied"
  ELSE IF ~error /\ ~s[h].followedUp
    THEN IF TooEarly(s[h].sentAt, t) THEN "wait" ELSE "followup"
  ELSE "nothing"

\* variant: a failed reply check does not hold the follow-up back
FollowupBranchOnError(s, h, replied, error, t) ==
  IF ~(Has(s, h) /\ s[h].sent) THEN "skip"
  ELSE IF replied THEN "replied"
  ELSE IF ~s[h].followedUp
    THEN IF TooEarly(s[h].sentAt, t) THEN "wait" ELSE "followup"
  ELSE "nothing"

\* what the sweep does with a creator, given checkReply's result
FollowupBranch(s, h, replied, error, t) ==
  IF ~(Has(s, h) /\ s[h].sent) THEN "skip"
  ELSE IF replied THEN "replied"
  ELSE IF ~error /\ ~s[h].followedUp
    THEN IF TooEarly(s[h].sentAt, t) THEN "wait" ELSE "followup"
  ELSE "nothing"

\* const result = await checkReply(page, c.handle), which is not called
\* for a creator without a sent record
CheckResult(s, h, replied, error) ==
  IF ~(Has(s, h) /\ s[h].sent) THEN "none"
  ELSE IF replied THEN "replied"
  ELSE IF error THEN "error"
  ELSE "no_reply"

\* for (const c of creators): checkReply and the branch on its result
CheckReply ==
  /\ mode = "followup"
  /\ pc = "creators"
  /\ \/ /\ ci > Len(creators)        \* summary
        /\ pc' = "closing"
        /\ UNCHANGED <<file, state, ci, handle, result>>
     \/ /\ ci <= Len(creators)       \* browseFeed / checkReply throws
        /\ IsSent(state, creators[ci])
        /\ TopLevelCatch
        /\ UNCHANGED <<state, ci, handle, result>>
     \/ /\ ci <= Len(creators)
        /\ \E replied \in BOOLEAN, error \in BOOLEAN :
             /\ replied => ~error
             /\ result' = CheckResult(state, creators[ci], replied, error)
             /\ LET h == creators[ci]
                    b == FollowupBranch(state, h, replied, error, now) IN
                  \/ /\ b \in {"skip", "wait"}      \* continue
                     /\ ci' = ci + 1
                     /\ UNCHANGED <<file, state, pc, handle>>
                  \/ /\ b = "replied"
                     /\ state' = [state EXCEPT ![h].replied = TRUE]
                     /\ SaveState(state')
                     /\ ci' = ci + 1
                     /\ UNCHANGED <<pc, handle>>
                  \/ /\ b = "nothing"
                     /\ SaveState(state)
                     /\ ci' = ci + 1
                     /\ UNCHANGED <<state, pc, handle>>
                  \/ /\ b = "followup"
                     /\ handle' = h
                     /\ pc' = "followupSend"
                     /\ UNCHANGED <<file, state, ci>>
  /\ UNCHANGED <<creators, now, mode, screeningOn, searchVars, success, parts,
                 tabVars, runHistVars, sentHistVars, screenVars, killedAfter,
                 configVars, diskVars, browser, keys, captured, strategy, openedUrls>>

\* the follow-up message: wait for the input, type, Enter
SendFollowup ==
  /\ pc = "followupSend"
  /\ \/ /\ SaveState(state)          \* input not found / typing throws
        /\ ci' = ci + 1
        /\ handle' = NoHandle
        /\ pc' = "creators"
        /\ UNCHANGED followedUp
     \/ /\ followedUp' = followedUp \cup {handle}   \* Enter pressed
        /\ pc' = "followupRecord"
        /\ UNCHANGED <<file, ci, handle>>
  /\ UNCHANGED <<creators, now, mode, state, screeningOn, searchVars, success,
                 parts, tabVars, runHistVars, delivered, screenVars,
                 killedAfter,
                 configVars, diskVars, sweepVars, browser, keys, captured, strategy, openedUrls>>

\* state[c.handle].followedUp = true; followedUpAt; saveState(state)
MarkFollowedUp(s, h, t) ==
  [s EXCEPT ![h].followedUp = TRUE, ![h].followedUpAt = t]

RecordFollowup ==
  /\ pc = "followupRecord"
  /\ state' = MarkFollowedUp(state, handle, now)
  /\ SaveState(state')
  /\ ci' = ci + 1
  /\ handle' = NoHandle
  /\ pc' = "creators"
  /\ UNCHANGED <<creators, now, mode, screeningOn, searchVars, success, parts,
                 tabVars, runHistVars, sentHistVars, screenVars, killedAfter,
                 configVars, diskVars, sweepVars, browser, keys, captured, strategy, openedUrls>>

(* ------------------------------- Next ---------------------------------- *)
\* steps of one candidate's screening and dispatch, shared by the modes
Outreach ==
  \/ Screen
  \/ BranchOnScreen
  \/ SendEntry
  \/ TypePart
  \/ Record

\* steps of searchInstagramForCreators and of the loop that follows it
IGSearch ==
  \/ SearchQuery
  \/ OpenSuggestion
  \/ SuggestionCatch
  \/ OpenPost
  \/ Extract
  \/ Gate
  \/ SkipPost
  \/ OpenProfile
  \/ CloseRejected
  \/ CloseProfile
  \/ ClosePost
  \/ ProfileCatch
  \/ PostCatch
  \/ ProcessNewHandles

\* the outreach runs: discover, send and igsearch, interrupted at any point
Next ==
  \/ Interrupt
  \/ ProcessExit
  \/ RunDiscover
  \/ StartIGSearch
  \/ StartSend
  \/ Login
  \/ CloseBrowser
  \/ IGSearch
  \/ NextCreator
  \/ Outreach

Spec == Init /\ [][Next]_vars

\* send runs and follow-up sweeps over the days, interrupted at any point
NextSweep ==
  \/ Tick
  \/ Interrupt
  \/ ProcessExit
  \/ RunDiscover
  \/ StartSend
  \/ StartFollowup
  \/ Login
  \/ CloseBrowser
  \/ NextCreator
  \/ Outreach
  \/ CheckReply
  \/ SendFollowup
  \/ RecordFollowup

SpecSweep == Init /\ [][NextSweep]_vars

\* the start of a run in each of the three modes, among send runs and
\* follow-up sweeps; what a search run does after the login is in Next
NextStart ==
  \/ NextSweep
  \/ StartIGSearch

SpecStart == Init /\ [][NextStart]_vars

\* search runs over any post page, with the history of the post URLs opened
\* for the keyword, interrupted at any point
NextSearch ==
  \/ Interrupt
  \/ ProcessExit
  \/ StartIGSearch
  \/ Login
  \/ CloseBrowser
  \/ SearchQuery
  \/ OpenSuggestion
  \/ SuggestionCatch
  \/ OpenPostRecorded
  \/ ExtractAny
  \/ Gate
  \/ SkipPost
  \/ OpenProfile
  \/ CloseRejected
  \/ CloseProfile
  \/ ClosePost
  \/ ProfileCatch
  \/ PostCatch
  \/ ProcessNewHandles
  \/ Outreach

SpecSearch == Init /\ [][NextSearch]_vars

\* send runs killed at any point, the inside of a save included
NextSave ==
  \/ Interrupt
  \/ InterruptSave
  \/ ProcessExit
  \/ ProcessCrash
  \/ RunDiscover
  \/ StartSend
  \/ LoadStateThrows
  \/ Login
  \/ CloseBrowser
  \/ NextCreator
  \/ Outreach

SpecSave == Init /\ [][NextSave]_vars

\* search runs over any post page, with the return that produced each
\* handle; each run goes on to its end
NextExtract ==
  \/ ProcessExit
  \/ StartIGSearch
  \/ Login
  \/ CloseBrowser
  \/ SearchQuery
  \/ OpenSuggestion
  \/ SuggestionCatch
  \/ OpenPost
  \/ ExtractTraced
  \/ Gate
  \/ SkipPost
  \/ OpenProfile
  \/ CloseRejected
  \/ CloseProfile
  \/ ClosePost
  \/ ProfileCatch
  \/ PostCatch
  \/ ProcessNewHandles
  \/ Outreach

SpecExtract == Init /\ [][NextExtract]_vars

\* search runs over long dropdowns and long suggestion pages whose posts
\* show no account
NextCaps ==
  \/ ProcessExit
  \/ StartIGSearch
  \/ Login
  \/ CloseBrowser
  \/ SearchQueryLong
  \/ OpenSuggestionLong
  \/ SuggestionCatch
  \/ OpenPost
  \/ ExtractNone
  \/ SkipPost
  \/ PostCatch
  \/ ProcessNewHandles

SpecCaps == Init /\ [][NextCaps]_vars

\* Instagram ends the session while the search run is past login: the
\* pages that load from here on are those of a logged-out visitor.  No
\* statement of the loops looks at the session
SessionLost ==
  /\ mode = "igsearch"
  /\ pc \notin {"idle", "login", "closing", "exit1", "crash"}
  /\ ~sessionLost
  /\ sessionLost' = TRUE
  /\ UNCHANGED <<file, creators, now, mode, pc, state, screeningOn, searchVars,
                 handle, success, parts, tabVars, ci, runHistVars,
                 sentHistVars, screenVars, killedAfter, configVars, sweepVars, torn,
                 other, browser, keys, captured, strategy, openedUrls>>

\* a search run starts with a session that has not been lost
StartIGSearchValid ==
  /\ ~sessionLost
  /\ StartIGSearch

\* search runs up to and including the one whose session is lost; each
\* run goes on to its end
NextSession ==
  \/ ProcessExit
  \/ StartIGSearchValid
  \/ SessionLost
  \/ Login
  \/ CloseBrowser
  \/ IGSearch
  \/ Outreach

SpecSession == Init /\ [][NextSession]_vars

\* a second process starts on the same state file: loadState()
OtherStarts ==
  /\ ~other.on
  /\ ~torn
  /\ other' = [on |-> TRUE, state |-> file]
  /\ UNCHANGED <<file, creators, now, mode, pc, state, screeningOn, searchVars,
                 handle, success, parts, tabVars, ci, runHistVars,
                 sentHistVars, screenVars, killedAfter, configVars, sweepVars, torn,
                 sessionLost, browser, keys, captured, strategy, openedUrls>>

\* the second process is through with a candidate its own mapping admits:
\* state[handle] = { sent: success, ... }; saveState(state)
OtherRecords ==
  /\ other.on
  /\ \E h \in Handles, ok \in BOOLEAN :
       /\ ~IsSent(other.state, h)
       /\ ~IsScreened(other.state, h)
       /\ other' = [on |-> TRUE,
                    state |-> RecordOutcome(other.state, h, ok, now)]
       /\ SaveState(other'.state)
       /\ delivered' = IF ok THEN delivered \cup {h} ELSE delivered
  /\ UNCHANGED <<creators, now, mode, pc, state, screeningOn, searchVars,
                 handle, success, parts, tabVars, ci, runHistVars, followedUp,
                 screenVars, killedAfter, configVars, sweepVars, torn, sessionLost,
                 browser, keys, captured, strategy, openedUrls>>

\* the second process ends
OtherEnds ==
  /\ other.on
  /\ other' = NoOther
  /\ UNCHANGED <<file, creators, now, mode, pc, state, screeningOn, searchVars,
                 handle, success, parts, tabVars, ci, runHistVars,
                 sentHistVars, screenVars, killedAfter, configVars, sweepVars, torn,
                 sessionLost, browser, keys, captured, strategy, openedUrls>>

\* send runs with a second process on the same state file; each run goes
\* on to its end
NextConcurrent ==
  \/ ProcessExit
  \/ RunDiscover
  \/ StartSend
  \/ Login
  \/ CloseBrowser
  \/ NextCreator
  \/ Outreach
  \/ OtherStarts
  \/ OtherRecords
  \/ OtherEnds

SpecConcurrent == Init /\ [][NextConcurrent]_vars

\* the dropdown shows up to MaxSuggShort suggestions
SearchQueryShort == SearchQueryUpTo(MaxSuggShort)

\* the steps of a running process: every await of the runs is bounded by a
\* timeout or throws, so a process that can take a step takes one
RunStep ==
  \/ ProcessExit
  \/ Login
  \/ CloseBrowser
  \/ SearchQueryShort
  \/ OpenSuggestion
  \/ SuggestionCatch
  \/ OpenPost
  \/ Extract
  \/ Gate
  \/ SkipPost
  \/ OpenProfile
  \/ CloseRejected
  \/ CloseProfile
  \/ ClosePost
  \/ ProfileCatch
  \/ PostCatch
  \/ ProcessNewHandles
  \/ NextCreator
  \/ Outreach
  \/ CheckReply
  \/ SendFollowup
  \/ RecordFollowup

\* the follow-up window passes between two runs
WaitWindow ==
  /\ pc = "idle"
  /\ now + FollowupDays <= MaxDay
  /\ now' = now + FollowupDays
  /\ UNCHANGED <<file, creators, mode, pc, state, screeningOn, searchVars,
                 handle, success, parts, tabVars, ci, runHistVars,
                 sentHistVars, screenVars, killedAfter, configVars, diskVars,
                 sweepVars, browser, keys, captured, strategy, openedUrls>>

\* runs of the three modes before and after the follow-up window, none of
\* them killed
NextLive ==
  \/ WaitWindow
  \/ StartIGSearch
  \/ StartSend
  \/ StartFollowup
  \/ RunStep

SpecLive == Init /\ [][NextLive]_vars /\ WF_vars(RunStep)

\* send runs over creators that may include the operator's own account,
\* interrupted at any point
NextSend ==
  \/ Interrupt
  \/ ProcessExit
  \/ RunDiscoverAny
  \/ StartSendAny
  \/ Login
  \/ CloseBrowser
  \/ NextCreator
  \/ Outreach

SpecSend == Init /\ [][NextSend]_vars

\* send runs with any of the message lists, interrupted at any point
NextDispatch ==
  \/ Interrupt
  \/ ProcessExit
  \/ RunDiscover
  \/ StartSend
  \/ Login
  \/ CloseBrowser
  \/ NextCreator
  \/ Outreach

SpecDispatch == InitAnyMessages /\ [][NextDispatch]_vars

(* ---------------------------- properties ------------------------------- *)
\* pcs at which sendMessages is running or has just returned
SendPcs == {"send", "typing", "record"}

\* pcs between the gate's admission and the candidate's record
ProcessingPcs == {"openProfile", "screen", "screened", "send", "typing",
                  "record", "profileCatch"}

\* C1: sendMessages is never invoked, in a send or igsearch run, for a
\* handle whose record had sent=true when the run loaded the state file
Idempotency == pc \in SendPcs => handle \notin sentAtLoad

\* a post of this run resolved to a handle that was sent at load, and the
\* gate turned it away
IdempotencyWitness ==
  /\ mode = "igsearch"
  /\ pc = "skipPost"
  /\ handle \in sentAtLoad

\* C2: over all runs and interruptions, no handle receives the complete
\* message sequence a second time
NoDoubleDispatch ==
  [][(pc = "typing" /\ pc' = "record") => handle \notin delivered]_vars

\* C3: within one igsearch run the gate admits a handle at most once,
\* whatever became of the first admission
NoDuplicateAdmission ==
  [][(pc = "gate" /\ pc' = "openProfile") => handle \notin admitted]_vars

\* C4: after a process was killed right after saving A as sent, A's sent
\* record is in the file and the fresh run opens no profile tab for A, does
\* not screen it and does not message it
Resumability ==
  killedAfter # NoHandle =>
    /\ IsSent(file, killedAfter)
    /\ pc \in ProcessingPcs => handle # killedAfter

\* the fresh run has sent to B and has just turned the rediscovered A away
ResumabilityWitness ==
  /\ killedAfter = "a"
  /\ pc = "skipPost"
  /\ handle = "a"
  /\ "b" \in admitted
  /\ IsSent(file, "b")

\* C5: between two posts of searchInstagramForCreators no post tab and no
\* profile tab is open, whatever way the previous post's processing ended
TabBalance ==
  pc \in {"post", "sugg", "newHandles", "queries"} =>
    openPost = 0 /\ openProfile = 0

\* the second post is about to be opened after a post whose profile
\* processing threw: the handle was admitted and has no record
TabBalanceWitness ==
  /\ pc = "post"
  /\ ri = 2
  /\ \E h \in admitted : ~Has(file, h)

\* C6: a record with skippedReason "screening" is never overwritten, and no
\* send or igsearch run screens or messages its handle
ScreenedFinal ==
  /\ [](\A h \in DOMAIN file :
          (IsScreened(file, h) /\ pc \in ProcessingPcs) => handle # h)
  /\ [][\A h \in DOMAIN file :
          IsScreened(file, h) => (h \in DOMAIN file' /\ file'[h] = file[h])]_vars

\* a post resolved to a handle screened out by an earlier run (this run did
\* not admit it), and the gate turned it away
ScreenedFinalWitness ==
  /\ pc = "skipPost"
  /\ IsScreened(file, handle)
  /\ handle \notin admitted

\* a sent record of the state file that is less than 3 days old
SentTooEarly(h) ==
  /\ IsSent(file, h)
  /\ now - file[h].sentAt < 3

\* C7: while a sent record is less than 3 days old, the follow-up sweep
\* sends its handle no follow-up message and leaves followedUp and
\* followedUpAt as they were; replied changes only when a reply is detected
FollowupTooEarly ==
  /\ [](pc \in {"followupSend", "followupRecord"} =>
          now - state[handle].sentAt >= 3)
  /\ [][\A h \in DOMAIN file :
          (mode = "followup" /\ SentTooEarly(h)) =>
            /\ h \in DOMAIN file'
            /\ file'[h].followedUp = file[h].followedUp
            /\ file'[h].followedUpAt = file[h].followedUpAt
            /\ file'[h].replied # file[h].replied => file'[h].replied
            /\ h \in followedUp' <=> h \in followedUp]_vars

\* the sweep has gone past a creator whose sent record is less than 3 days
\* old and has neither a reply nor a follow-up
FollowupTooEarlyWitness ==
  /\ mode = "followup"
  /\ pc = "creators"
  /\ ci > 1
  /\ ci - 1 <= Len(creators)
  /\ SentTooEarly(creators[ci - 1])
  /\ ~file[creators[ci - 1]].replied
  /\ ~file[creators[ci - 1]].followedUp
  /\ creators[ci - 1] \notin followedUp

\* a sent record of the state file that is 3 days old or more, with no
\* reply and no follow-up recorded
FollowupDue(h) ==
  /\ IsSent(file, h)
  /\ now - file[h].sentAt >= 3
  /\ ~file[h].replied
  /\ ~file[h].followedUp

\* C8, first half: a sweep that ran to its summary leaves no sent record
\* that is due without its follow-up
FollowupSweepComplete ==
  (mode = "followup" /\ pc = "closing" /\ ci > Len(creators)) =>
    \A h \in DOMAIN file : ~FollowupDue(h)

\* C8, second half: over all sweeps and interruptions, no handle is sent
\* the follow-up message a second time
FollowupAtMostOnce ==
  [][(pc = "followupSend" /\ pc' = "followupRecord") =>
        handle \notin followedUp]_vars

ProviderFailures ==
  {"network_error", "http_error_json", "http_error_text", "no_answer_text"}

\* C10: whenever the provider call fails, screenProfile passes the candidate
\* and no screening record is written
FailOpen ==
  /\ (pc = "screened" /\ provider \in ProviderFailures) => screenResult = "pass"
  /\ pc = "rejected" => provider \notin ProviderFailures

\* the texts a key stream submits: the stream is cut at every Enter, and
\* Shift+Enter is a line break inside the text
RECURSIVE Submissions(_, _)
Submissions(ks, cur) ==
  IF ks = <<>> THEN <<>>
  ELSE IF Head(ks) = "Enter" THEN <<cur>> \o Submissions(Tail(ks), <<>>)
  ELSE Submissions(Tail(ks),
                   Append(cur, IF Head(ks) = "Shift+Enter" THEN "\n"
                               ELSE Head(ks)))

\* C11: a record becomes sent only at the record step of a sendMessages that
\* returned true, and sendMessages returns true only when the key stream
\* submitted exactly the N parts of the list, each whole, in list order
AllPartsSubmitted ==
  /\ []((pc = "record" /\ success) =>
          /\ Submissions(keys, <<>>) = messages
          /\ Len(SelectSeq(keys, LAMBDA k : k = "Enter")) = Len(messages))
  /\ [][\A h \in DOMAIN file' :
          (IsSent(file', h) /\ ~IsSent(file, h)) =>
            (pc = "record" /\ success /\ h = handle)]_vars

\* sendMessages has returned true for a list one of whose parts holds a
\* line break after a character
AllPartsSubmittedWitness ==
  /\ pc = "record"
  /\ success
  /\ \E i \in 1..Len(messages) : messages[i] = <<"x", "\n">>

\* the Enter presses in a key stream
Submits(ks) == Len(SelectSeq(ks, LAMBDA k : k = "Enter"))

\* C12: when the typing loop of a search candidate stopped after k < N
\* submitted parts, the candidate's record on disk is a failed one once the
\* profile tab has been dealt with
PartialSendFailed ==
  (/\ mode = "igsearch"
   /\ pc = "closePost"
   /\ keys # <<>>
   /\ Submits(keys) < NumParts) => IsFailed(file, handle)

\* C13: a record on disk that has replied or followedUp set is never
\* changed again, and its handle is sent no follow-up
OutreachTerminal ==
  [][\A h \in DOMAIN file :
       (file[h].replied \/ file[h].followedUp) =>
         /\ h \in DOMAIN file'
         /\ file'[h] = file[h]
         /\ (h \in followedUp' => h \in followedUp)]_vars

\* C14: a handle that is being processed and has a record has a failed
\* one, and a handle with a failed record that reaches the checks (a post
\* of a search run, the next creator of a send run) is admitted unless the
\* process is killed there
RetryFailed ==
  /\ []((pc \in ProcessingPcs /\ Has(state, handle)) => IsFailed(state, handle))
  /\ [][(/\ pc = "gate"
         /\ handle # NoHandle
         /\ ToLower(handle) # OwnHandle
         /\ handle \notin Range(found)
         /\ IsFailed(state, handle)) => pc' \in {"openProfile", "idle"}]_vars
  /\ [][(/\ mode = "send"
         /\ pc = "creators"
         /\ ci <= Len(creators)
         /\ IsFailed(state, creators[ci])) => (ci' = ci \/ pc' = "idle")]_vars

\* a send run delivered the whole sequence to a handle whose record, loaded
\* from the file, was a failed one
RetryFailedWitness ==
  /\ mode = "send"
  /\ pc = "record"
  /\ success
  /\ IsFailed(state, handle)
  /\ IsFailed(file, handle)

\* C15: no candidate is screened or messaged, and no record is written,
\* for the operator's own handle in whatever case
NeverSelf ==
  /\ (pc \in ProcessingPcs /\ handle # NoHandle) => ToLower(handle) # OwnHandle
  /\ \A h \in DOMAIN file : ToLower(h) # OwnHandle

\* C16: a run that finds the credentials missing ends with exit status 1
\* straight from the start: no browser, no tab, the state file neither
\* loaded nor written
CredentialsFirst ==
  /\ [](pc = "exit1" =>
          /\ ~browser
          /\ openSugg + openPost + openProfile = 0
          /\ state = EmptyMap)
  /\ [][pc' = "exit1" => (pc = "idle" /\ file' = file)]_vars
  /\ [][pc = "exit1" => (pc' = "idle" /\ file' = file /\ ~browser')]_vars

\* a search run found the credentials missing with records on disk
CredentialsFirstWitness ==
  /\ pc = "exit1"
  /\ mode = "igsearch"
  /\ file # EmptyMap

\* C17: a post tab is opened only for a URL that no post tab was opened
\* for earlier in the same keyword
UrlOpenedOnce ==
  [][(pc = "post" /\ openPost' = openPost + 1) =>
       reelUrls[ri] \notin openedUrls]_vars

\* C20: the handle the extraction hands to the checks is none of the
\* navigation page names
NoReservedHandle == pc = "gate" => handle \notin SkipPages

EntryNotFound ==
  /\ []((pc = "record" /\ ~success) =>
          /\ keys = <<>>
          /\ parts = 0
          /\ captured = "profile"
          /\ (mode = "igsearch" => openProfile = 1))
  /\ [][(pc = "record" /\ ~success /\ pc' # "idle") =>
          /\ IsFailed(file', handle)
          /\ file'[handle].sentAt = Null
          /\ pc' = IF mode = "igsearch" THEN "closeProfile" ELSE "creators"]_vars
  /\ [][(mode = "igsearch" /\ pc \in {"closeProfile", "closePost"}
         /\ ~success /\ captured = "profile" /\ pc' # "idle") =>
          pc' \in {"closePost", "post"}]_vars

\* the search run has moved on to the next post after a candidate whose
\* dispatch found no button or input, and the failed record is on disk
EntryNotFoundWitness ==
  /\ mode = "igsearch"
  /\ pc = "extract"
  /\ ri = 2
  /\ \E h \in DOMAIN file : IsFailed(file, h)

\* C21: whatever the point a run was killed at, the state file can be
\* loaded: no later run ends in loadState, and the file is never left
\* with part of a write
SaveAtomic == ~torn /\ pc # "crash"

\* C22: the step that follows a screening rejection puts the record
\* sent=false, skipped=true, skippedReason="screening" for the candidate in
\* the state file, with the profile and post tabs of a search run still
\* open, and never leads into sendMessages
RejectionRecorded ==
  /\ [][(pc = "screened" /\ screenResult = "reject" /\ pc' # "idle") =>
          /\ pc' \in {"rejected", "creators"}
          /\ handle \in DOMAIN file'
          /\ ~file'[handle].sent
          /\ file'[handle].skipped
          /\ file'[handle].skippedReason = "screening"
          /\ file'[handle].sentAt = Null
          /\ openProfile' = openProfile
          /\ openPost' = openPost]_vars
  /\ []((mode = "igsearch" /\ pc = "rejected") =>
          /\ openProfile = 1
          /\ openPost = 1
          /\ IsScreened(file, handle))
  /\ [][(pc' \in SendPcs /\ pc \notin SendPcs) =>
          (pc = "screened" /\ screenResult = "pass")]_vars

\* a search run has saved the screening record of a rejected candidate and
\* has both of the candidate's tabs open
RejectionRecordedWitness ==
  /\ mode = "igsearch"
  /\ pc = "rejected"
  /\ screenResult = "reject"
  /\ IsScreened(file, handle)
  /\ openProfile = 1
  /\ openPost = 1

\* C23 as stated: in a search run a profile tab is open only with its post
\* tab, a post tab only with its suggestion tab, the function returns with
\* no tab open, and a suggestion tab is closed only when every URL
\* collected from it has been processed
StrictNesting ==
  /\ [](mode = "igsearch" =>
          /\ (openProfile > 0 => openPost > 0)
          /\ (openPost > 0 => openSugg > 0)
          /\ (pc = "newHandles" => openSugg + openPost + openProfile = 0))
  /\ [][(mode = "igsearch" /\ mode' = "igsearch" /\ openSugg' < openSugg) =>
          (reelUrls = <<>> \/ ri > Len(reelUrls))]_vars

\* C23, amended: the same, but a suggestion tab is also closed by the catch
\* of a suggestion whose handling failed before any of its posts was
\* opened; the URLs collected up to the failure are dropped
StrictNestingOrFailed ==
  /\ [](mode = "igsearch" =>
          /\ (openProfile > 0 => openPost > 0)
          /\ (openPost > 0 => openSugg > 0)
          /\ (pc = "newHandles" => openSugg + openPost + openProfile = 0))
  /\ [][(mode = "igsearch" /\ mode' = "igsearch" /\ openSugg' < openSugg) =>
          /\ openPost = 0
          /\ openProfile = 0
          /\ \/ pc = "post" /\ ri > Len(reelUrls)
             \/ pc = "suggCatch" /\ ri = 0]_vars

\* the catch of a suggestion is about to close its tab with collected URLs
\* that were never opened
StrictNestingWitness ==
  /\ mode = "igsearch"
  /\ pc = "suggCatch"
  /\ openSugg = 1
  /\ reelUrls # <<>>

\* the position of a pc among the steps of one candidate of a search run
StepRank(p) ==
  CASE p = "post" -> 0
    [] p = "extract" -> 1
    [] p = "gate" -> 2
    [] p \in {"openProfile", "screen", "screened", "rejected"} -> 3
    [] p \in {"send", "typing"} -> 4
    [] p = "record" -> 5
    [] p \in {"closeProfile", "profileCatch"} -> 6
    [] p \in {"closePost", "skipPost", "postCatch"} -> 7
    [] OTHER -> 8

\* C24: a search run has at most one tab of each level open, the steps of
\* a candidate follow one another in the order extract, gate, dispatch,
\* persist, close, and the record is on disk while the profile tab is
\* still open
OneAtATime ==
  /\ [](mode = "igsearch" =>
          /\ openSugg <= 1
          /\ openPost <= 1
          /\ openProfile <= 1
          /\ (pc = "closeProfile" =>
                /\ openProfile = 1
                /\ Has(file, handle)
                /\ file[handle].sent = success))
  /\ [][(mode = "igsearch" /\ mode' = "igsearch"
         /\ StepRank(pc) < 8 /\ StepRank(pc') < 8) =>
          \/ StepRank(pc') >= StepRank(pc)
          \/ pc' = "post"]_vars
  /\ [][(mode = "igsearch" /\ pc' = "record") => pc \in {"send", "typing"}]_vars
  /\ [][(mode = "igsearch" /\ pc' \in {"send", "openProfile"}) =>
          pc \in {"gate", "screened"}]_vars
  /\ [][(mode = "igsearch" /\ pc' = "gate") => pc = "extract"]_vars

\* a search run has written the record of a delivered candidate and has
\* one tab of each level open
OneAtATimeWitness ==
  /\ mode = "igsearch"
  /\ pc = "closeProfile"
  /\ success
  /\ IsSent(file, handle)
  /\ openSugg = 1
  /\ openPost = 1
  /\ openProfile = 1

\* C25: the handle handed to the checks was produced by the labelled
\* anchor, or else by the title, or else by the URL; an anchor that is not
\* labelled with its path segment never produces it
LabelledAnchorOnly == pc = "gate" => strategy \in {"label", "meta", "url"}

\* C26: when no strategy yields a handle the post page is captured while
\* its tab is open, no record is written, no profile tab is opened, and
\* the next step closes the post tab and goes on to the next URL
ExtractionFailure ==
  /\ []((pc = "skipPost" /\ handle = NoHandle) =>
          /\ captured = "post"
          /\ openPost = 1
          /\ openProfile = 0
          /\ state = file)
  /\ [][(pc = "extract" /\ handle' = NoHandle /\ pc' # "idle") =>
          /\ pc' = "skipPost"
          /\ file' = file
          /\ state' = state
          /\ openPost' = openPost]_vars
  /\ [][(pc = "skipPost" /\ handle = NoHandle /\ pc' # "idle") =>
          /\ pc' = "post"
          /\ ri' = ri + 1
          /\ file' = file
          /\ state' = state
          /\ openPost' = 0
          /\ openProfile' = 0
          /\ admitted' = admitted]_vars

\* the extraction has failed on the first post of a list of two, with
\* records of earlier candidates on disk
ExtractionFailureWitness ==
  /\ pc = "skipPost"
  /\ handle = NoHandle
  /\ captured = "post"
  /\ ri = 1
  /\ Len(reelUrls) = 2
  /\ file # EmptyMap

\* C27: a search run that takes up a keyword goes on to open at least one
\* suggestion URL for it (the synthetic one when no suggestion was read)
KeywordNeverSkipped ==
  [][(mode = "igsearch" /\ pc = "queries" /\ qi <= MaxQueries
      /\ pc' \notin {"idle", "closing"}) =>
       /\ pc' = "sugg"
       /\ Len(suggestionUrls') >= 1]_vars

\* C28: the suggestion list of a keyword has at most 5 entries and the post
\* list of a suggestion at most 24, a suggestion tab is open only for one
\* of the first 5 list positions and a post tab only for one of the first
\* 24, and a tab is opened only at the position the loop is at
ExpansionBounds ==
  /\ [](mode = "igsearch" =>
          /\ Len(suggestionUrls) <= 5
          /\ Len(reelUrls) <= 24
          /\ (openSugg > 0 => si \in 1..5)
          /\ (openPost > 0 => ri \in 1..24))
  /\ [][(mode = "igsearch" /\ openSugg' > openSugg) =>
          (pc = "sugg" /\ si' = si /\ si <= Len(suggestionUrls))]_vars
  /\ [][(mode = "igsearch" /\ openPost' > openPost) =>
          (pc = "post" /\ ri' = ri /\ ri <= Len(reelUrls))]_vars
  /\ [][(mode = "igsearch" /\ mode' = "igsearch" /\ pc \notin {"login", "queries"}) =>
          /\ (si' # si => (si' = si + 1 \/ si' = 0))
          /\ (ri' # ri => (ri' = ri + 1 \/ si' # si \/ pc = "sugg"))]_vars

\* the last post of the last suggestion is open: 5 suggestions and 24
\* posts were taken from a dropdown and a page that showed more
ExpansionBoundsWitness ==
  /\ mode = "igsearch"
  /\ pc = "extract"
  /\ Len(suggestionUrls) = 5
  /\ si = 5
  /\ Len(reelUrls) = 24
  /\ ri = 24
  /\ openPost = 1

\* C29: in a process whose screening is off screenProfile calls no
\* provider and passes, the candidate goes from screenProfile straight to
\* sendMessages, and no screening record is added to the state file
ScreeningOff ==
  /\ []((~screeningOn /\ pc = "screened") =>
          (screenResult = "pass" /\ provider = "none"))
  /\ [][(~screeningOn /\ pc = "screen" /\ pc' # "idle") =>
          (pc' = "screened" /\ file' = file)]_vars
  /\ [][(~screeningOn /\ pc = "screened" /\ pc' # "idle") =>
          (pc' = "send" /\ file' = file)]_vars
  /\ [][~screeningOn =>
          \A h \in DOMAIN file' : IsScreened(file', h) => IsScreened(file, h)]_vars

\* a search run with screening off has a candidate past screenProfile
ScreeningOffWitness ==
  /\ mode = "igsearch"
  /\ ~screeningOn
  /\ pc = "screened"
  /\ screenResult = "pass"
  /\ handle \in Handles

\* the loop of the run is at its end: the summary is what comes next
Finished ==
  \/ pc = "queries" /\ qi > MaxQueries
  \/ pc = "creators" /\ ci > Len(creators)

\* C30: a fault that leaves the loop of a run is caught: the state mapping
\* is written to the state file, every record the file had stays, the
\* browser is open until it is closed, and after the catch the only step
\* of the process is the one that closes the browser
TopLevelFault ==
  /\ [][(pc # "closing" /\ pc' = "closing" /\ ~Finished) =>
          /\ file' = state
          /\ \A h \in DOMAIN file : h \in DOMAIN file' /\ file'[h] = file[h]
          /\ browser']_vars
  /\ [](pc = "closing" => browser)
  /\ [][pc = "closing" =>
          (pc' = "idle" /\ file' = file /\ ~browser' /\ handle' = NoHandle)]_vars

\* a send run stopped by a fault with creators left and records on disk
TopLevelFaultWitness ==
  /\ pc = "closing"
  /\ mode = "send"
  /\ ci >= 1
  /\ ci <= Len(creators)
  /\ file = state
  /\ DOMAIN file # {}

\* C31: once the session of a run is lost no candidate is recorded as
\* failed any more and no further profile is opened
SessionInvalid ==
  [][sessionLost =>
       /\ \A h \in DOMAIN file' :
            (~file'[h].sent /\ file'[h].skipped /\ file'[h].skippedReason = "none")
              => (h \in DOMAIN file /\ file[h] = file'[h])
       /\ openProfile' <= openProfile]_vars

LastWriterWins ==
  [][file' # file =>
       \/ /\ pc # "idle"
          /\ file' = state'
          /\ other' = other
       \/ /\ other.on
          /\ file' = other'.state
          /\ state' = state]_vars

\* the send run dispatches to a handle the second process has recorded as
\* sent after the run loaded, and that record is no longer in the file
LastWriterWinsWitness ==
  /\ mode = "send"
  /\ pc = "send"
  /\ other.on
  /\ IsSent(other.state, handle)
  /\ ~Has(state, handle)
  /\ ~Has(file, handle)

\* C34: no step takes a handle out of the state file, and no step of a
\* running process takes a handle out of its in-memory mapping; the
\* mapping of a process holds every handle the file holds
AppendOnly ==
  /\ [][DOMAIN file \subseteq DOMAIN file']_vars
  /\ [][(pc # "idle" /\ pc' # "idle") =>
          DOMAIN state \subseteq DOMAIN state']_vars
  /\ [](pc \notin {"idle", "exit1"} => DOMAIN file \subseteq DOMAIN state)

\* a run has added a second record to a file that held one when it loaded
AppendOnlyWitness ==
  /\ pc \notin {"idle", "exit1"}
  /\ file = state
  /\ DOMAIN file = {"a", "b"}
  /\ sentAtLoad # {}
  /\ \E h \in DOMAIN file : h \notin sentAtLoad

\* C35: a step that writes the creators cache without starting an
\* outreach process launches no browser, calls neither screenProfile nor
\* sendMessages and leaves the state file and everything else as it was
DiscoverOnly ==
  [][(pc = "idle" /\ pc' = "idle" /\ creators' # creators) =>
       /\ file' = file
       /\ ~browser'
       /\ mode' = "idle"
       /\ provider' = "none"
       /\ screenResult' = "none"
       /\ parts' = 0
       /\ keys' = <<>>
       /\ delivered' = delivered
       /\ followedUp' = followedUp
       /\ state' = state
       /\ tabVars' = tabVars]_vars

\* the creators cache is written and no process has touched anything else
DiscoverOnlyWitness ==
  /\ pc = "idle"
  /\ creators # <<>>
  /\ file = EmptyMap
  /\ ~browser
  /\ delivered = {}
  /\ admitted = {}

\* the fields of one record agree with each other
WellFormedRecord(r) ==
  /\ r.sent = ~r.skipped
  /\ (r.sentAt # -1) = r.sent
  /\ r.skippedReason = "screening" => ~r.sent
  /\ (r.replied \/ r.followedUp) => r.sent

\* C36: every record of the state file and of the running process's
\* mapping has sent = not skipped, a sentAt exactly when sent, no sent
\* with skippedReason "screening", and replied or followedUp only when sent
WellFormed ==
  /\ \A h \in DOMAIN file : WellFormedRecord(file[h])
  /\ \A h \in DOMAIN state : WellFormedRecord(state[h])

\* the file holds a sent record that was followed up, with its sentAt, next
\* to a screened-out one
WellFormedWitness ==
  \E h1, h2 \in DOMAIN file :
    /\ file[h1].sent
    /\ file[h1].followedUp
    /\ file[h1].sentAt >= 0
    /\ file[h2].skippedReason = "screening"
    /\ file[h2].skipped

\* C37: a record of the state file that has sent keeps its sent flag and
\* its sentAt through every later step of every run
SentIsFinal ==
  [][\A h \in DOMAIN file :
       file[h].sent =>
         /\ h \in DOMAIN file'
         /\ file'[h].sent
         /\ file'[h].sentAt = file[h].sentAt]_vars

\* a send run on a later day has gone through its creators, one of which
\* has a followed-up sent record of an earlier day
SentIsFinalWitness ==
  /\ mode = "send"
  /\ pc = "closing"
  /\ ci > Len(creators)
  /\ \E i \in 1..Len(creators) :
       /\ IsSent(file, creators[i])
       /\ file[creators[i]].sentAt < now
       /\ file[creators[i]].followedUp

\* C38: every handle of found has a record with sent in the run's mapping,
\* so the loop over the handles searchInstagramForCreators returned admits
\* none: it opens no profile tab, calls neither screenProfile nor
\* sendMessages and goes on to the next keyword
NewHandlesAllSent ==
  /\ [](\A k \in 1..Len(found) :
          found[k] \in DOMAIN state /\ state[found[k]].sent)
  /\ [](pc # "secondDispatch")
  /\ [][pc = "newHandles" =>
          /\ pc' \in {"queries", "idle"}
          /\ openProfile' = 0
          /\ provider' = "none"
          /\ parts' = 0
          /\ delivered' = delivered
          /\ file' = file]_vars

\* the loop is reached with a handle that was messaged in this run
NewHandlesAllSentWitness ==
  /\ pc = "newHandles"
  /\ Len(found) >= 1
  /\ found[1] \in delivered
  /\ found[1] \notin sentAtLoad

\* C39: a creator whose reply check failed, and a creator whose message
\* input was not found, is sent no follow-up message, keeps its record as
\* it was, and the sweep goes on to the next creator
FollowupErrorPaths ==
  /\ [][(/\ mode = "followup"
         /\ pc = "creators"
         /\ ci' = ci + 1 \/ pc' = "followupSend"
         /\ result' = "error") =>
          /\ pc' = "creators"
          /\ ci' = ci + 1
          /\ state' = state
          /\ file'[creators[ci]] = file[creators[ci]]
          /\ followedUp' = followedUp]_vars
  /\ [][(pc = "followupSend" /\ pc' = "creators") =>
          /\ ci' = ci + 1
          /\ state' = state
          /\ file'[handle] = file[handle]
          /\ file'[handle].sent
          /\ ~file'[handle].followedUp
          /\ followedUp' = followedUp]_vars

\* the sweep has gone past a creator whose reply check failed and whose
\* record is still due for the follow-up
FollowupErrorPathsWitness ==
  /\ mode = "followup"
  /\ pc = "creators"
  /\ result = "error"
  /\ ci > 1
  /\ ci - 1 <= Len(creators)
  /\ FollowupDue(creators[ci - 1])
  /\ creators[ci - 1] \notin followedUp

\* C40: a run that has launched the browser comes to the point where the
\* browser is closed, and the browser is closed by the final cleanup only
Termination ==
  /\ browser ~> ~browser
  /\ [][(browser /\ ~browser') => pc = "closing"]_vars

\* a search run is at the final cleanup, the browser still open, after a
\* candidate whose dispatch failed
TerminationWitness ==
  /\ mode = "igsearch"
  /\ pc = "closing"
  /\ browser
  /\ \E h \in DOMAIN file : IsFailed(file, h)

TypeOK ==
  /\ pc \in {"idle", "exit1", "crash", "login", "closing", "queries", "sugg", "suggCatch",
             "post", "postCatch", "extract", "gate", "skipPost",
             "screened", "openProfile", "profileCatch",
             "screen", "rejected", "send", "typing", "record", "closeProfile",
             "closePost", "newHandles", "secondDispatch", "creators", "followupSend",
             "followupRecord"}
  /\ now \in 0..MaxDay
  /\ parts \in 0..NumParts
  /\ browser \in BOOLEAN
  /\ captured \in {"none", "post", "profile"}
  /\ openedUrls \subseteq Urls
  /\ messages \in MessageLists
  /\ torn \in BOOLEAN
  /\ sessionLost \in BOOLEAN
  /\ result \in {"none", "replied", "no_reply", "error"}
  /\ other.on \in BOOLEAN
  /\ DOMAIN other.state \subseteq AllHandles
  /\ strategy \in {"none", "label", "link", "meta", "url"}
====
